---- MODULE Spec2Model ----
(***************************************************************************)
(* Model of isp_monitor: the dashboard's periodic probe tick               *)
(* (MonitoringDashboard.update_data), the throughput test it starts in a   *)
(* worker thread (run_speed_test_now, SpeedTestWorker.run,                 *)
(* ISPMonitor.measure_speed, handle_speedtest_result) and the DNS leak     *)
(* test worker.  Handlers of the GUI thread run to completion; the worker  *)
(* threads advance in steps of their own and report through signals that   *)
(* are queued to the GUI thread in emission order.                         *)
(***************************************************************************)
EXTENDS Integers, Sequences, FiniteSets, TLC

VARIABLES
    clock,               \* time.time(), in seconds since the monitor started
    timer_due,           \* update_timer has a timeout pending
    mainpc,              \* GUI thread: "init", "loop", or inside a processEvents() call
    speedtest_available, \* ISPMonitor.speedtest_available
    speedtest_running,   \* MonitoringDashboard.speedtest_running
    speedtest_thread,    \* MonitoringDashboard.speedtest_thread (0 is None)
    speed_label,         \* text of speed_label
    ping_status_label,   \* text of ping_status_label
    status_label,        \* text of status_label
    ping_metrics_label,  \* content of ping_metrics_label
    ping_time_data,      \* timestamps of the buffered samples
    ping_data,           \* latencies of the buffered samples
    lost_ping_times,     \* timestamps of the lost markers
    total_pings,         \* counter of recorded samples
    lost_pings,          \* counter of samples recorded as lost
    probes,              \* the probes the last update_data call issued
    dropped,             \* some recorded sample has left the buffer (eviction or clear)
    outage_ticks,        \* ticks so far, all of them with every probe timing out (-1: not so)
    dns_at_tick,         \* a DNS worker was at work when update_data ran last
    result_label,        \* the speeds handle_speedtest_result displayed last
    started,             \* SpeedTestWorker threads started so far
    wpc,                 \* position of each SpeedTestWorker thread, and of a direct caller (0)
    wres,                \* per thread: the speeds measure_speed has measured, then its return value
    wforce,              \* per thread: the force argument of its measure_speed call
    wtime,               \* per thread: current_time of its last measure_speed call
    wreported,           \* per thread: the phases its call under way has reported progress of
    calls,               \* direct calls of measure_speed made so far
    last_speed_test,     \* ISPMonitor.last_speed_test, on the scale of clock
    speedtest_results,   \* speedtest.results: the download and upload speeds last measured
    last_result,         \* what the measure_speed call that last set last_speed_test returned
    mainq,               \* signals queued to the GUI thread, in emission order
    dns_test_running,    \* MonitoringDashboard.dns_test_running
    dns_test_thread,     \* MonitoringDashboard.dns_test_thread (0 is None)
    dns_progress,        \* value of the dns_progress bar
    dns_test_results,    \* the report handle_dns_test_result stored last
    dns_started,         \* DNSLeakTestWorker threads started so far
    dpc,                 \* position of each DNSLeakTestWorker thread
    dns_pending,         \* per worker: the panel domains whose future has not completed
    dns_completed,       \* per worker: check_dns_leaks' completed counter
    dns_configured,      \* per worker: check_dns_leaks' configured_dns
    dns_detected,        \* per worker: check_dns_leaks' detected_servers
    dns_failed,          \* per worker: some resolution of the run has raised
    dns_kept             \* per worker: the servers of the resolutions that have not raised

tickvars == <<ping_status_label, status_label, ping_metrics_label, ping_time_data,
              ping_data, lost_ping_times, total_pings, lost_pings, probes, dropped,
              outage_ticks, dns_at_tick>>

speedvars == <<speedtest_available, speedtest_running, speedtest_thread, result_label,
               started, wpc, wres>>

measurevars == <<wforce, wtime, wreported, calls, last_speed_test, speedtest_results, last_result>>

dnsvars == <<dns_test_running, dns_test_thread, dns_progress, dns_test_results,
             dns_started, dpc, dns_pending, dns_completed, dns_configured, dns_detected,
             dns_failed, dns_kept>>

\* ---------------------------------------------------------------- bounds

MaxTime == 120           \* the clock is followed up to this time when tests run
MaxWindowTime == 600     \* the clock is followed up to this time when only the timer runs
MaxPings == 3            \* update_data calls that record a sample are followed up to this count
MaxRuns == 2             \* SpeedTestWorker threads started are followed up to this count
MaxRunsAll == 1          \* the same, where DNS leak tests run beside them
MaxQueue == 1            \* a progress signal is emitted while fewer signals than this wait
MaxDnsRuns == 1          \* DNSLeakTestWorker threads started are followed up to this count
MaxCalls == 3            \* direct calls of measure_speed are followed up to this count
MaxDnsWorkers == 3       \* the same as MaxDnsRuns, where only DNS leak tests run

\* ------------------------------------------------------- program constants

window_seconds == 300    \* setup_data_structures
PingScale == 1000        \* measure_ping: seconds to milliseconds
speed_test_interval == 300   \* ISPMonitor.__init__

\* ------------------------------------------------------------------ inputs

\* The time that passes between two looks at the clock.
Deltas == {60, 250}

\* What one ping3.ping('8.8.8.8', timeout=1) call does: it returns a delay,
\* returns None on a timeout, or raises.
PingDelays == {0, 2}
PingOutcomes ==
    [kind : {"ok"}, delay : PingDelays] \cup [kind : {"timeout", "raise"}, delay : {0}]

\* What speedtest.download and speedtest.upload return, in Mbps; the direct
\* calls of measure_speed see two download speeds, which tell their runs apart.
DownloadSpeeds == {55}
DownloadSpeedsDirect == {55, 70}
UploadSpeeds == {12}

NoResult == [download |-> 0, upload |-> 0, error |-> FALSE]

\* time.time() when the monitor is constructed, where clock is 0: some time
\* that is not within speed_test_interval of the epoch.
StartTime == speed_test_interval + MaxWindowTime

\* The threads that call measure_speed: the SpeedTestWorker threads, and 0 for a
\* caller that calls it directly.
Threads == 0..MaxRuns

\* The DNSLeakTestWorker threads, by the order of their creation.
DnsThreads == 1..MaxDnsWorkers

\* ------------------------------------------------------------- ISPMonitor

\* check_connection: ping is not None; an exception gives False.
check_connection(o) == o.kind = "ok"

\* measure_ping: the delay in milliseconds, 0.0 on a timeout or an exception.
measure_ping(o) == IF o.kind = "ok" THEN o.delay * PingScale ELSE 0

\* ------------------------------------------------------------ update_data

\* update_data without its guard.
UpdateNeverPaused == FALSE

\* update_data pausing as long as the worker object is kept.
UpdatePausedByThread == speedtest_running \/ speedtest_thread # 0

\* update_data pausing for a DNS leak test as well.
UpdatePausedByAnyTest == speedtest_running \/ dns_test_running

\* The guard of update_data: a running speed test pauses the tick.
UpdatePaused == speedtest_running

\* A loss test that only looks for a missing latency: measure_ping returns none.
IsLostPingNone(ping_time) == FALSE

\* "Track lost pings": the condition under which a recorded sample counts as lost.
IsLostPing(ping_time) == ping_time = 0

\* An eviction that pops at most one element: "if" in the place of "while".
StaleHeadOnce(ts, cutoff) == IF ts # <<>> /\ Head(ts) < cutoff THEN 1 ELSE 0

\* The number of head elements of a timestamp list that are older than the cutoff
\* (the while loops pop the head as long as it is older).
RECURSIVE StaleHead(_, _)
StaleHead(ts, cutoff) ==
    IF ts # <<>> /\ Head(ts) < cutoff THEN 1 + StaleHead(Tail(ts), cutoff) ELSE 0

DropHead(s, n) == SubSeq(s, n + 1, Len(s))

RECURSIVE SeqMin(_)
SeqMin(s) ==
    IF Len(s) = 1 THEN s[1]
    ELSE LET m == SeqMin(Tail(s)) IN IF s[1] < m THEN s[1] ELSE m

RECURSIVE SeqMax(_)
SeqMax(s) ==
    IF Len(s) = 1 THEN s[1]
    ELSE LET m == SeqMax(Tail(s)) IN IF s[1] > m THEN s[1] ELSE m

RECURSIVE SeqSum(_)
SeqSum(s) == IF s = <<>> THEN 0 ELSE s[1] + SeqSum(Tail(s))

\* "Update metrics box": valid_y holds every buffered latency that is not NaN; no
\* latency the monitor returns is NaN, so valid_y is ping_data.  The average is
\* kept as sum and count.
MetricsLabel(data, lost, total) ==
    LET valid_y == data IN
    IF Len(valid_y) > 0
    THEN [kind |-> "stats", min |-> SeqMin(valid_y), max |-> SeqMax(valid_y),
          sum |-> SeqSum(valid_y), n |-> Len(valid_y), lost |-> lost, total |-> total]
    ELSE [kind |-> "No data", min |-> 0, max |-> 0, sum |-> 0, n |-> 0,
          lost |-> 0, total |-> 0]

NoLabel == [kind |-> "", min |-> 0, max |-> 0, sum |-> 0, n |-> 0, lost |-> 0, total |-> 0]

\* A new data point put in front of the list.
PrependSample(s, x) == <<x>> \o s

\* "Add new data point": list.append.
AppendSample(s, x) == Append(s, x)

\* The connected branch of update_data: one sample is measured, recorded and
\* the window evicted.
RecordSample(o3) ==
    LET ping_time == measure_ping(o3)
        now == clock
        lost == IsLostPing(ping_time)
        times1 == AppendSample(ping_time_data, now)
        data1 == AppendSample(ping_data, ping_time)
        lost1 == IF lost THEN AppendSample(lost_ping_times, now) ELSE lost_ping_times
        cutoff_time == now - window_seconds
        k == StaleHead(times1, cutoff_time)
        kl == StaleHead(lost1, cutoff_time)
        times2 == DropHead(times1, k)
        data2 == DropHead(data1, k)
    IN  /\ total_pings' = total_pings + 1
        /\ lost_pings' = IF lost THEN lost_pings + 1 ELSE lost_pings
        /\ ping_time_data' = times2
        /\ ping_data' = data2
        /\ lost_ping_times' = DropHead(lost1, kl)
        /\ dropped' = (dropped \/ k > 0)
        /\ ping_metrics_label' =
               IF times2 # <<>>
               THEN MetricsLabel(data2, lost_pings', total_pings')
               ELSE ping_metrics_label

\* The disconnected branch of update_data: the buffer is cleared.
ClearSamples ==
    /\ ping_data' = <<>>
    /\ ping_time_data' = <<>>
    /\ dropped' = (dropped \/ ping_time_data # <<>>)
    /\ UNCHANGED <<lost_ping_times, total_pings, lost_pings, ping_metrics_label>>

\* One probe update_data issued: the method it called and whether the ping under
\* it was answered.
Probe(method, o) == [method |-> method, answered |-> o.kind = "ok"]

\* outage_ticks after a tick: it counts the ticks since the start as long as every
\* probe of every tick has timed out.
OutageAfter(paused, o1, o2) ==
    IF /\ ~paused
       /\ outage_ticks >= 0
       /\ outage_ticks < 10
       /\ o1.kind = "timeout"
       /\ o2.kind = "timeout"
    THEN outage_ticks + 1
    ELSE -1

update_data(o1, o2, o3) ==
    IF UpdatePaused
    THEN /\ ping_status_label' = "Paused (speed test running)"
         /\ probes' = <<>>
         /\ outage_ticks' = OutageAfter(TRUE, o1, o2)
         /\ UNCHANGED <<status_label, ping_metrics_label, ping_time_data, ping_data,
                        lost_ping_times, total_pings, lost_pings, dropped, speed_label>>
    ELSE LET is_connected1 == check_connection(o1)
             is_connected == check_connection(o2)
         IN  /\ ping_status_label' =
                    IF is_connected1 THEN "Connected: Running" ELSE "Disconnected"
             /\ status_label' =
                    IF is_connected THEN "Status: Connected" ELSE "Status: Disconnected"
             /\ outage_ticks' = OutageAfter(FALSE, o1, o2)
             /\ IF is_connected
                THEN /\ total_pings < MaxPings
                     /\ RecordSample(o3)
                     /\ probes' = <<Probe("check_connection", o1), Probe("check_connection", o2),
                                    Probe("measure_ping", o3)>>
                     /\ UNCHANGED speed_label
                ELSE /\ ClearSamples
                     /\ probes' = <<Probe("check_connection", o1), Probe("check_connection", o2)>>
                     /\ speed_label' = "Speed: -- Mbps"

\* update_timer fires: the GUI thread runs update_data, from the event loop or
\* from a processEvents() call inside run_speed_test_now.
Tick ==
    /\ mainpc # "init"
    /\ timer_due
    /\ timer_due' = FALSE
    /\ \E o1, o2, o3 \in PingOutcomes : update_data(o1, o2, o3)
    /\ dns_at_tick' =
          (dns_test_running /\ \E w \in DOMAIN dpc : dpc[w] \in {"run", "resolve"})
    /\ UNCHANGED <<clock, mainpc, mainq>>
    /\ UNCHANGED speedvars
    /\ UNCHANGED measurevars
    /\ UNCHANGED dnsvars

\* Time passes; the 1 s timer has a timeout pending afterwards.
TimePasses(limit) ==
    /\ \E d \in Deltas :
          /\ clock + d <= limit
          /\ clock' = clock + d
    /\ timer_due' = TRUE
    /\ UNCHANGED <<mainpc, speed_label, mainq>>
    /\ UNCHANGED speedvars
    /\ UNCHANGED dnsvars
    /\ UNCHANGED measurevars
    /\ UNCHANGED tickvars

AdvanceTime == TimePasses(MaxTime)

AdvanceTimeWindow == TimePasses(MaxWindowTime)

\* ------------------------------------------------------ run_speed_test_now

\* ISPMonitor defines no init_speedtest: the call in run_speed_test_now raises
\* AttributeError, which its except clause catches.
init_speedtest_raises == TRUE

\* run_speed_test_now without its guard against a running test.
NeverAlreadyRunning == FALSE

\* The guard "if self.speedtest_running": a running test rejects the request.
AlreadyRunning == speedtest_running

\* A run_speed_test_now that sets speedtest_running before it looks at
\* speedtest_available.
run_speed_test_now_flag_first ==
    IF ~speedtest_available
    THEN /\ speed_label' = "Initializing speedtest..."
         /\ mainpc' = "pe_init"
         /\ speedtest_running' = TRUE
         /\ UNCHANGED result_label
    ELSE IF AlreadyRunning
    THEN /\ speed_label' = "Speedtest already running"
         /\ mainpc' = "loop"
         /\ UNCHANGED <<speedtest_running, result_label>>
    ELSE /\ result_label' = NoResult
         /\ speedtest_running' = TRUE
         /\ speed_label' = "Running speed test..."
         /\ mainpc' = "pe_start"

\* run_speed_test_now, up to its first processEvents() call or its return.
run_speed_test_now ==
    IF ~speedtest_available
    THEN /\ speed_label' = "Initializing speedtest..."
         /\ mainpc' = "pe_init"
         /\ UNCHANGED <<speedtest_running, result_label>>
    ELSE IF AlreadyRunning
    THEN /\ speed_label' = "Speedtest already running"
         /\ mainpc' = "loop"
         /\ UNCHANGED <<speedtest_running, result_label>>
    ELSE /\ result_label' = NoResult
         /\ speedtest_running' = TRUE
         /\ speed_label' = "Running speed test..."
         /\ mainpc' = "pe_start"

\* A request that starts a test is followed while fewer than limit were started.
WithinRuns(limit) == (speedtest_available /\ ~speedtest_running) => started < limit

\* A run request reaches the GUI thread in its event loop.
RequestUpTo(limit) ==
    /\ mainpc = "loop"
    /\ WithinRuns(limit)
    /\ run_speed_test_now
    /\ UNCHANGED <<clock, timer_due, speedtest_available, speedtest_thread, started, wpc,
                   wres, mainq>>
    /\ UNCHANGED dnsvars
    /\ UNCHANGED measurevars
    /\ UNCHANGED tickvars

Request == RequestUpTo(MaxRuns)

RequestFirst == RequestUpTo(MaxRunsAll)

\* __init__ with run_speedtest_at_start: the request made at startup.
StartupRun ==
    /\ mainpc = "init"
    /\ run_speed_test_now
    /\ UNCHANGED <<clock, timer_due, speedtest_available, speedtest_thread, started, wpc,
                   wres, mainq>>
    /\ UNCHANGED dnsvars
    /\ UNCHANGED measurevars
    /\ UNCHANGED tickvars

\* __init__ without run_speedtest_at_start.
StartupSkip ==
    /\ mainpc = "init"
    /\ mainpc' = "loop"
    /\ UNCHANGED <<clock, timer_due, speed_label, mainq>>
    /\ UNCHANGED speedvars
    /\ UNCHANGED dnsvars
    /\ UNCHANGED measurevars
    /\ UNCHANGED tickvars

\* run_speed_test_now after "Initializing speedtest...": the re-initialization.
RetryInit ==
    /\ mainpc = "pe_init"
    /\ IF init_speedtest_raises \/ ~speedtest_available
       THEN /\ speed_label' = "Speed: Speedtest unavailable"
            /\ mainpc' = "loop"
            /\ UNCHANGED <<speedtest_running, result_label>>
       ELSE run_speed_test_now
    /\ UNCHANGED <<clock, timer_due, speedtest_available, speedtest_thread, started, wpc,
                   wres, mainq>>
    /\ UNCHANGED dnsvars
    /\ UNCHANGED measurevars
    /\ UNCHANGED tickvars

\* run_speed_test_now after "Running speed test...": the worker is created
\* with force=True and started.
StartWorker ==
    /\ mainpc = "pe_start"
    /\ started' = started + 1
    /\ speedtest_thread' = started + 1
    /\ wpc' = [wpc EXCEPT ![started + 1] = "run"]
    /\ wforce' = [wforce EXCEPT ![started + 1] = TRUE]
    /\ mainpc' = "loop"
    /\ UNCHANGED <<clock, timer_due, speedtest_available, speedtest_running, speed_label,
                   result_label, wres, mainq>>
    /\ UNCHANGED <<wtime, wreported, calls, last_speed_test, speedtest_results,
                   last_result>>
    /\ UNCHANGED dnsvars
    /\ UNCHANGED tickvars

\* ------------------------------------------------- ISPMonitor.measure_speed

\* The positions of a thread inside measure_speed: at its entry, before
\* get_best_server, inside speedtest.download, inside speedtest.upload.
Measuring == {"run", "select", "download", "upload"}

\* The return value where speedtest is not available.
UnavailableResult == [download |-> 0, upload |-> 0, error |-> TRUE]

\* The return value of the except clause.
ErrorResult == [download |-> 0, upload |-> 0, error |-> TRUE]

\* The return value of the cache path: the speeds held by speedtest.results.
CachedResult ==
    [download |-> speedtest_results.download, upload |-> speedtest_results.upload,
     error |-> FALSE]

\* A cache test that does not look at force.
UseCacheUnforced(force, current_time) ==
    current_time - last_speed_test < speed_test_interval

\* The cache test: "not force and current_time - self.last_speed_test <
\* self.speed_test_interval".
UseCache(force, current_time) ==
    ~force /\ current_time - last_speed_test < speed_test_interval

\* measure_speed returns: the thread is behind the call.
Return(t, value) ==
    /\ wres' = [wres EXCEPT ![t] = value]
    /\ wpc' = [wpc EXCEPT ![t] = "emit"]
    /\ wreported' = [wreported EXCEPT ![t] = {}]

\* measure_speed from its entry to the start of the try block.
MeasureBegin(t) ==
    /\ wpc[t] = "run"
    /\ IF ~speedtest_available
       THEN /\ Return(t, UnavailableResult)
            /\ UNCHANGED wtime
       ELSE LET current_time == clock IN
            /\ wtime' = [wtime EXCEPT ![t] = current_time]
            /\ IF UseCache(wforce[t], current_time)
               THEN Return(t, CachedResult)
               ELSE /\ wpc' = [wpc EXCEPT ![t] = "select"]
                    /\ UNCHANGED <<wres, wreported>>
    /\ UNCHANGED <<mainq, wforce, last_speed_test, speedtest_results, last_result>>

\* get_best_server returns or raises.
MeasureSelect(t) ==
    /\ wpc[t] = "select"
    /\ \/ /\ wpc' = [wpc EXCEPT ![t] = "download"]
          /\ UNCHANGED <<wres, wreported>>
       \/ Return(t, ErrorResult)
    /\ UNCHANGED <<mainq, wforce, wtime, last_speed_test, speedtest_results, last_result>>

\* Callbacks that report each other's phase.
CallbackPhaseSwapped(pc) == IF pc = "download" THEN "upload" ELSE "download"

\* The phase a callback reports: speedtest.download calls download_callback,
\* speedtest.upload calls upload_callback.
CallbackPhase(pc) == IF pc = "download" THEN "download" ELSE "upload"

\* One call of download_callback or upload_callback under a worker: emit_progress
\* emits a progress signal.
MeasureProgress(w) ==
    /\ wpc[w] \in {"download", "upload"}
    /\ Len(mainq) < MaxQueue
    /\ mainq' = Append(mainq, [sig |-> "progress", w |-> w,
                               val |-> CallbackPhase(wpc[w])])
    /\ wreported' = [wreported EXCEPT ![w] = @ \cup {CallbackPhase(wpc[w])}]
    /\ UNCHANGED <<wpc, wres>>

\* speedtest.download returns, having stored its speed in speedtest.results, or
\* raises.
MeasureDownload(t, speeds) ==
    /\ wpc[t] = "download"
    /\ \/ \E dn \in speeds :
             /\ wpc' = [wpc EXCEPT ![t] = "upload"]
             /\ wres' = [wres EXCEPT ![t] = [download |-> dn, upload |-> 0,
                                            error |-> FALSE]]
             /\ speedtest_results' = [speedtest_results EXCEPT !.download = dn]
             /\ UNCHANGED wreported
       \/ /\ Return(t, ErrorResult)
          /\ UNCHANGED speedtest_results
    /\ UNCHANGED <<mainq, wforce, wtime, last_speed_test, last_result>>

\* An upload whose failure, too, dates the last test.
MeasureUploadStamping(t) ==
    /\ wpc[t] = "upload"
    /\ \/ \E up \in UploadSpeeds :
             LET speed == [download |-> wres[t].download, upload |-> up, error |-> FALSE]
             IN  /\ Return(t, speed)
                 /\ speedtest_results' = [speedtest_results EXCEPT !.upload = up]
                 /\ last_speed_test' = wtime[t]
                 /\ last_result' = speed
       \/ /\ Return(t, ErrorResult)
          /\ last_speed_test' = wtime[t]
          /\ UNCHANGED <<speedtest_results, last_result>>
    /\ UNCHANGED <<mainq, wforce, wtime>>

\* speedtest.upload returns, having stored its speed in speedtest.results, and
\* measure_speed sets last_speed_test and returns the two speeds; or it raises.
MeasureUpload(t) ==
    /\ wpc[t] = "upload"
    /\ \/ \E up \in UploadSpeeds :
             LET speed == [download |-> wres[t].download, upload |-> up, error |-> FALSE]
             IN  /\ Return(t, speed)
                 /\ speedtest_results' = [speedtest_results EXCEPT !.upload = up]
                 /\ last_speed_test' = wtime[t]
                 /\ last_result' = speed
       \/ /\ Return(t, ErrorResult)
          /\ UNCHANGED <<speedtest_results, last_speed_test, last_result>>
    /\ UNCHANGED <<mainq, wforce, wtime>>

\* measure_speed is called directly, with either value of force, by a caller
\* that has no call of it under way and still holds what its last call returned.
CallMeasureSpeed ==
    /\ wpc[0] \in {"new", "emit"}
    /\ calls < MaxCalls
    /\ calls' = calls + 1
    /\ wpc' = [wpc EXCEPT ![0] = "run"]
    /\ \E force \in BOOLEAN : wforce' = [wforce EXCEPT ![0] = force]
    /\ UNCHANGED <<clock, timer_due, mainpc, speedtest_available, speedtest_running,
                   speedtest_thread, speed_label, result_label, started, wres, mainq>>
    /\ UNCHANGED <<wtime, wreported, last_speed_test, speedtest_results, last_result>>
    /\ UNCHANGED dnsvars
    /\ UNCHANGED tickvars

\* The direct caller gets on with its call.
CallerStep ==
    /\ \/ MeasureBegin(0)
       \/ MeasureSelect(0)
       \/ MeasureDownload(0, DownloadSpeedsDirect)
       \/ MeasureUpload(0)
    /\ UNCHANGED <<clock, timer_due, mainpc, speedtest_available, speedtest_running,
                   speedtest_thread, speed_label, result_label, started, calls>>
    /\ UNCHANGED dnsvars
    /\ UNCHANGED tickvars

\* ---------------------------------------------------------- SpeedTestWorker

\* A run that emits its result only when the test succeeded.
EmitResultOnSuccess(w) ==
    /\ wpc[w] = "emit"
    /\ mainq' = IF wres[w].error THEN mainq
                ELSE Append(mainq, [sig |-> "result", w |-> w, val |-> wres[w]])
    /\ wpc' = [wpc EXCEPT ![w] = "finish"]
    /\ wtime' = [wtime EXCEPT ![w] = 0]
    /\ UNCHANGED <<wres, wforce, wreported, last_speed_test, speedtest_results,
                   last_result>>

\* SpeedTestWorker.run: result_ready.emit(speed); the call is behind the
\* thread and its current_time is gone.
EmitResult(w) ==
    /\ wpc[w] = "emit"
    /\ mainq' = Append(mainq, [sig |-> "result", w |-> w, val |-> wres[w]])
    /\ wpc' = [wpc EXCEPT ![w] = "finish"]
    /\ wtime' = [wtime EXCEPT ![w] = 0]
    /\ UNCHANGED <<wres, wforce, wreported, last_speed_test, speedtest_results,
                   last_result>>

\* run has returned: the thread emits finished.
EmitFinished(w) ==
    /\ wpc[w] = "finish"
    /\ mainq' = Append(mainq, [sig |-> "finished", w |-> w, val |-> ""])
    /\ wpc' = [wpc EXCEPT ![w] = "done"]
    /\ UNCHANGED <<wres, wforce, wtime, wreported, last_speed_test, speedtest_results,
                   last_result>>

\* A worker thread reports progress.
WorkerProgress ==
    /\ \E w \in 1..MaxRuns : MeasureProgress(w)
    /\ UNCHANGED <<clock, timer_due, mainpc, speedtest_available, speedtest_running,
                   speedtest_thread, speed_label, result_label, started>>
    /\ UNCHANGED <<wforce, wtime, calls, last_speed_test, speedtest_results, last_result>>
    /\ UNCHANGED dnsvars
    /\ UNCHANGED tickvars

\* A worker thread gets on with its run.
WorkerStep ==
    /\ \E w \in 1..MaxRuns :
          \/ MeasureBegin(w)
          \/ MeasureSelect(w)
          \/ MeasureDownload(w, DownloadSpeeds)
          \/ MeasureUpload(w)
          \/ EmitResult(w)
          \/ EmitFinished(w)
    /\ UNCHANGED <<clock, timer_due, mainpc, speedtest_available, speedtest_running,
                   speedtest_thread, speed_label, result_label, started, calls>>
    /\ UNCHANGED dnsvars
    /\ UNCHANGED tickvars

\* ----------------------------------------------------------- DNSLeakTester

\* test_domains: the panel, by position.
NumDomains == 5
Domains == 1..NumDomains

\* What get_system_dns returns, and what the A and NS queries of one domain
\* answer when they do not raise.
ConfiguredChoices == {{"1.1.1.1"}, {"1.1.1.1", "8.8.8.8"}}

ConfiguredOne == {{"1.1.1.1"}}

\* How one resolution may go: whether its A query raises and, if that does not,
\* whether its NS query raises.  Beside the timer and the throughput tests the
\* DNS leak tests are followed with one configured server and with A queries
\* that answer.
ResolveOutcomes == [a_raises : BOOLEAN, ns_raises : BOOLEAN]
ResolveOutcomesAnswered == [a_raises : {FALSE}, ns_raises : BOOLEAN]
AnswersA == {"1.1.1.1"}
AnswersNS == {"8.8.8.8"}

\* resolve_domain: the A answers, then the NS answers; an exception ends the
\* collection and what was collected before it is returned.
resolve_domain(a_raises, ns_raises) ==
    IF a_raises THEN {}
    ELSE IF ns_raises THEN AnswersA
    ELSE AnswersA \cup AnswersNS

\* A progress value that counts the domains still to complete.
ProgressValuePending(completed) == ((NumDomains - completed) * 100) \div NumDomains

\* The value check_dns_leaks passes to progress_callback.
ProgressValue(completed) == (completed * 100) \div NumDomains

\* The servers of the wrong side: the configured ones that were not detected.
UnexpectedSwapped(configured_dns, detected_servers) == configured_dns \ detected_servers

\* "Check if we're detecting servers outside our configured ones".
Unexpected(configured_dns, detected_servers) == detected_servers \ configured_dns

\* The report check_dns_leaks returns.
LeakReport(configured_dns, detected_servers) ==
    LET unexpected_servers == Unexpected(configured_dns, detected_servers) IN
    [configured_dns |-> configured_dns,
     detected_servers |-> detected_servers,
     unexpected_servers |-> unexpected_servers,
     is_leaking |-> Cardinality(unexpected_servers) > 0,
     domains_tested |-> NumDomains,
     total_servers_detected |-> Cardinality(detected_servers)]

NoReport == LeakReport({}, {})

\* run_dns_leak_test, on a click that the event loop or a processEvents() call
\* dispatches: a request while a DNS test runs returns at once.
DnsRequestUpTo(limit) ==
    /\ mainpc # "init"
    /\ IF dns_test_running
       THEN UNCHANGED <<dns_test_running, dns_test_thread, dns_started, dpc>>
       ELSE /\ dns_started < limit
            /\ dns_test_running' = TRUE
            /\ dns_started' = dns_started + 1
            /\ dns_test_thread' = dns_started + 1
            /\ dpc' = [dpc EXCEPT ![dns_started + 1] = "run"]
    /\ UNCHANGED <<dns_progress, dns_test_results, dns_pending, dns_completed,
                   dns_configured, dns_detected, dns_failed, dns_kept>>
    /\ UNCHANGED <<clock, timer_due, mainpc, speed_label, mainq>>
    /\ UNCHANGED speedvars
    /\ UNCHANGED measurevars
    /\ UNCHANGED tickvars

DnsRequest == DnsRequestUpTo(MaxDnsRuns)

DnsRequestAgain == DnsRequestUpTo(MaxDnsWorkers)

\* check_dns_leaks up to the submission of the panel to the thread pool.
DnsBegin(w, configured) ==
    /\ dpc[w] = "run"
    /\ \E c \in configured : dns_configured' = [dns_configured EXCEPT ![w] = c]
    /\ dns_detected' = [dns_detected EXCEPT ![w] = {}]
    /\ dns_pending' = [dns_pending EXCEPT ![w] = Domains]
    /\ dns_completed' = [dns_completed EXCEPT ![w] = 0]
    /\ dpc' = [dpc EXCEPT ![w] = "resolve"]
    /\ UNCHANGED <<dns_failed, dns_kept, mainq>>

\* One round of the as_completed loop: the future of some pending domain has
\* completed, its servers are added and the progress is reported.
DnsComplete(w, d, outcomes) ==
    /\ dpc[w] = "resolve"
    /\ Len(mainq) < MaxQueue
    /\ d \in dns_pending[w]
    /\ \E o \in outcomes :
          LET a_raises == o.a_raises
              ns_raises == o.ns_raises
          IN
          /\ dns_pending' = [dns_pending EXCEPT ![w] = @ \ {d}]
          /\ dns_detected' = [dns_detected EXCEPT
                                 ![w] = @ \cup resolve_domain(a_raises, ns_raises)]
          /\ dns_failed' = [dns_failed EXCEPT ![w] = @ \/ a_raises \/ ns_raises]
          /\ dns_kept' = [dns_kept EXCEPT
                             ![w] = IF a_raises \/ ns_raises
                                    THEN @
                                    ELSE @ \cup resolve_domain(a_raises, ns_raises)]
    /\ dns_completed' = [dns_completed EXCEPT ![w] = @ + 1]
    /\ mainq' = Append(mainq, [sig |-> "dns_progress", w |-> w,
                               val |-> ProgressValue(dns_completed[w] + 1)])
    /\ UNCHANGED <<dpc, dns_configured>>

\* The loop has ended: the report is built and result_ready emitted.
DnsEmitResult(w) ==
    /\ dpc[w] = "resolve"
    /\ dns_pending[w] = {}
    /\ mainq' = Append(mainq, [sig |-> "dns_result", w |-> w,
                               val |-> LeakReport(dns_configured[w], dns_detected[w])])
    /\ dpc' = [dpc EXCEPT ![w] = "finish"]
    /\ UNCHANGED <<dns_pending, dns_completed, dns_configured, dns_detected, dns_failed,
                   dns_kept>>

\* run has returned: the thread emits finished.
DnsEmitFinished(w) ==
    /\ dpc[w] = "finish"
    /\ mainq' = Append(mainq, [sig |-> "dns_finished", w |-> w, val |-> ""])
    /\ dpc' = [dpc EXCEPT ![w] = "done"]
    /\ UNCHANGED <<dns_pending, dns_completed, dns_configured, dns_detected, dns_failed,
                   dns_kept>>

\* A step of a DNS worker; the futures complete in any order.
DnsWorkerStep ==
    /\ \E w \in DnsThreads :
          \/ DnsBegin(w, ConfiguredChoices)
          \/ \E d \in Domains : DnsComplete(w, d, ResolveOutcomes)
          \/ DnsEmitResult(w)
          \/ DnsEmitFinished(w)
    /\ UNCHANGED <<dns_test_running, dns_test_thread, dns_progress, dns_test_results,
                   dns_started>>
    /\ UNCHANGED <<clock, timer_due, mainpc, speed_label>>
    /\ UNCHANGED speedvars
    /\ UNCHANGED measurevars
    /\ UNCHANGED tickvars

\* A step of a DNS worker whose futures complete in submission order.
DnsWorkerStepInOrder ==
    /\ \E w \in DnsThreads :
          \/ DnsBegin(w, ConfiguredOne)
          \/ \E d \in Domains :
                /\ \A e \in dns_pending[w] : d <= e
                /\ DnsComplete(w, d, ResolveOutcomesAnswered)
          \/ DnsEmitResult(w)
          \/ DnsEmitFinished(w)
    /\ UNCHANGED <<dns_test_running, dns_test_thread, dns_progress, dns_test_results,
                   dns_started>>
    /\ UNCHANGED <<clock, timer_due, mainpc, speed_label>>
    /\ UNCHANGED speedvars
    /\ UNCHANGED measurevars
    /\ UNCHANGED tickvars

\* --------------------------------------------------- handlers of the signals

\* What the slots of the worker signals may change.
slotvars == <<speedtest_running, speedtest_thread, speed_label, result_label,
              dns_test_running, dns_test_thread, dns_progress, dns_test_results>>

\* A progress slot that takes the first progress for the end of the test.
handle_speedtest_progress_clearing ==
    /\ speedtest_running' = FALSE
    /\ UNCHANGED <<speedtest_thread, speed_label, result_label, dns_test_running,
                   dns_test_thread, dns_progress, dns_test_results>>

handle_speedtest_progress == UNCHANGED slotvars

\* A result slot that returns before its cleanup when the result carries an error.
handle_speedtest_result_on_success(speed) ==
    /\ speed_label' = "Speed: (manual)"
    /\ result_label' = speed
    /\ speedtest_running' = (speed.error /\ speedtest_running)
    /\ UNCHANGED <<speedtest_thread, dns_test_running, dns_test_thread, dns_progress,
                   dns_test_results>>

handle_speedtest_result(speed) ==
    /\ speed_label' = "Speed: (manual)"
    /\ result_label' = speed
    /\ speedtest_running' = FALSE
    /\ UNCHANGED <<speedtest_thread, dns_test_running, dns_test_thread, dns_progress,
                   dns_test_results>>

cleanup_speedtest_thread ==
    /\ speedtest_thread' = 0
    /\ UNCHANGED <<speedtest_running, speed_label, result_label, dns_test_running,
                   dns_test_thread, dns_progress, dns_test_results>>

handle_dns_test_progress(progress) ==
    /\ dns_progress' = progress
    /\ UNCHANGED <<speedtest_running, speedtest_thread, speed_label, result_label,
                   dns_test_running, dns_test_thread, dns_test_results>>

handle_dns_test_result(results) ==
    /\ dns_test_results' = results
    /\ dns_test_running' = FALSE
    /\ UNCHANGED <<speedtest_running, speedtest_thread, speed_label, result_label,
                   dns_test_thread, dns_progress>>

cleanup_dns_test_thread ==
    /\ dns_test_thread' = 0
    /\ dns_test_running' = FALSE
    /\ UNCHANGED <<speedtest_running, speedtest_thread, speed_label, result_label,
                   dns_progress, dns_test_results>>

\* The GUI thread delivers the oldest queued signal to its slot.
Deliver ==
    /\ mainpc # "init"
    /\ mainq # <<>>
    /\ mainq' = Tail(mainq)
    /\ LET s == Head(mainq) IN
          CASE s.sig = "progress" -> handle_speedtest_progress
            [] s.sig = "result" -> handle_speedtest_result(s.val)
            [] s.sig = "finished" -> cleanup_speedtest_thread
            [] s.sig = "dns_progress" -> handle_dns_test_progress(s.val)
            [] s.sig = "dns_result" -> handle_dns_test_result(s.val)
            [] s.sig = "dns_finished" -> cleanup_dns_test_thread
    /\ UNCHANGED <<clock, timer_due, mainpc, speedtest_available, started, wpc, wres>>
    /\ UNCHANGED <<dns_started, dpc, dns_pending, dns_completed, dns_configured,
                   dns_detected, dns_failed, dns_kept>>
    /\ UNCHANGED measurevars
    /\ UNCHANGED tickvars

\* ------------------------------------------------------------ specifications

vars == <<clock, timer_due, mainpc, speedtest_available, speedtest_running,
          speedtest_thread, speed_label, ping_status_label, status_label,
          ping_metrics_label, ping_time_data, ping_data, lost_ping_times, total_pings,
          lost_pings, probes, dropped, outage_ticks, dns_at_tick, result_label, started,
          wpc, wres, wforce, wtime, wreported, calls, last_speed_test, speedtest_results,
          last_result, mainq,
          dns_test_running, dns_test_thread, dns_progress, dns_test_results,
          dns_started, dpc, dns_pending, dns_completed, dns_configured, dns_detected,
          dns_failed, dns_kept>>

\* The state in __init__ before the startup request: ISPMonitor() has or has not
\* got a Speedtest, the data structures are empty, the timer is started.
Init ==
    /\ clock = 0
    /\ timer_due = FALSE
    /\ mainpc = "init"
    /\ speedtest_available \in BOOLEAN
    /\ speedtest_running = FALSE
    /\ speedtest_thread = 0
    /\ speed_label = IF speedtest_available THEN "Speed: -- Mbps"
                     ELSE "Speed: Speedtest unavailable"
    /\ ping_status_label = "Initializing..."
    /\ status_label = "Status: Initializing..."
    /\ ping_metrics_label = NoLabel
    /\ ping_time_data = <<>>
    /\ ping_data = <<>>
    /\ lost_ping_times = <<>>
    /\ total_pings = 0
    /\ lost_pings = 0
    /\ probes = <<>>
    /\ dropped = FALSE
    /\ outage_ticks = 0
    /\ dns_at_tick = FALSE
    /\ result_label = NoResult
    /\ started = 0
    /\ wpc = [t \in Threads |-> "new"]
    /\ wres = [t \in Threads |-> NoResult]
    /\ wforce = [t \in Threads |-> FALSE]
    /\ wtime = [t \in Threads |-> 0]
    /\ wreported = [t \in Threads |-> {}]
    /\ calls = 0
    /\ last_speed_test = 0 - StartTime
    /\ speedtest_results = [download |-> 0, upload |-> 0]
    /\ last_result = NoResult
    /\ mainq = <<>>
    /\ dns_test_running = FALSE
    /\ dns_test_thread = 0
    /\ dns_progress = 0
    /\ dns_test_results = NoReport
    /\ dns_started = 0
    /\ dpc = [w \in DnsThreads |-> "new"]
    /\ dns_pending = [w \in DnsThreads |-> {}]
    /\ dns_completed = [w \in DnsThreads |-> 0]
    /\ dns_configured = [w \in DnsThreads |-> {}]
    /\ dns_detected = [w \in DnsThreads |-> {}]
    /\ dns_failed = [w \in DnsThreads |-> FALSE]
    /\ dns_kept = [w \in DnsThreads |-> {}]

\* Timer ticks, throughput tests and their worker threads.
Next ==
    \/ StartupRun
    \/ StartupSkip
    \/ Request
    \/ RetryInit
    \/ StartWorker
    \/ WorkerProgress
    \/ WorkerStep
    \/ Deliver
    \/ Tick
    \/ AdvanceTime

Spec == Init /\ [][Next]_vars

\* The threads are scheduled and the event loop of the GUI thread runs: a worker
\* gets on with its run, a queued signal is delivered, run_speed_test_now returns
\* from processEvents().  The requests are followed as in NextAll.
NextFirst ==
    \/ StartupRun
    \/ StartupSkip
    \/ RequestFirst
    \/ RetryInit
    \/ StartWorker
    \/ WorkerProgress
    \/ WorkerStep
    \/ Deliver
    \/ Tick
    \/ AdvanceTime

FairSpec ==
    /\ Init
    /\ [][NextFirst]_vars
    /\ WF_vars(WorkerStep)
    /\ WF_vars(Deliver)
    /\ WF_vars(StartWorker)
    /\ WF_vars(RetryInit)
    /\ WF_vars(Tick)

\* The monitor with no test requested: only the timer runs.
NextTicks == StartupSkip \/ Tick \/ AdvanceTimeWindow

SpecTicks == Init /\ [][NextTicks]_vars

\* Timer ticks, throughput tests and DNS leak tests together.
NextAll ==
    \/ NextFirst
    \/ DnsRequest
    \/ DnsWorkerStepInOrder

SpecAll == Init /\ [][NextAll]_vars

\* DNS leak tests alone, their resolutions completing in any order.
NextDns ==
    \/ StartupSkip
    \/ DnsRequest
    \/ DnsWorkerStep
    \/ Deliver

SpecDns == Init /\ [][NextDns]_vars

\* DNS leak tests alone, one after the other, their resolutions completing in
\* submission order.
NextDnsRuns ==
    \/ StartupSkip
    \/ DnsRequestAgain
    \/ DnsWorkerStepInOrder
    \/ Deliver

SpecDnsRuns == Init /\ [][NextDnsRuns]_vars

\* measure_speed called directly, one call after the other, while time passes.
NextMonitor ==
    \/ CallMeasureSpeed
    \/ CallerStep
    \/ AdvanceTimeWindow

SpecMonitor == Init /\ [][NextMonitor]_vars

\* ------------------------------------------------------------------ claims

\* A throughput test is active from the start of its worker thread until the
\* GUI thread has handled its result.
ResultQueued(w) == \E i \in 1..Len(mainq) : mainq[i].sig = "result" /\ mainq[i].w = w

TestActive(w) == wpc[w] \in Measuring \cup {"emit"} \/ ResultQueued(w)

\* A step in which update_timer's timeout is handled: update_data runs.
TickStep == timer_due /\ ~timer_due'

SampleVars == <<ping_time_data, ping_data, lost_ping_times, total_pings, lost_pings>>

\* C1: no connectivity probe is issued between the start of a throughput test and
\* the handling of its result: a tick that issues a probe finds no worker that is
\* inside measure_speed or whose result is still to be handled.
C1_NoProbeDuringTest ==
    [][(TickStep /\ probes' # <<>>) => \A w \in 1..MaxRuns : ~TestActive(w)]_vars

\* A tick was paused while a worker was inside its download or upload phase.
C1_Witness ==
    /\ ping_status_label = "Paused (speed test running)"
    /\ probes = <<>>
    /\ \E w \in 1..MaxRuns : wpc[w] \in {"download", "upload"}

\* C2: a tick that fires while a throughput test is active issues no probe,
\* appends no sample and leaves the sample buffer, the lost markers and the
\* total and lost counters as they were.
C2_PausedTickIsNoOp ==
    [][(TickStep /\ speedtest_running) => (probes' = <<>> /\ UNCHANGED SampleVars)]_vars

\* A tick was paused while the buffer held a sample recorded before the test.
C2_Witness ==
    /\ ping_status_label = "Paused (speed test running)"
    /\ speedtest_running
    /\ ping_time_data # <<>>
    /\ clock > ping_time_data[Len(ping_time_data)]

\* C3: at most one throughput test is active at any time; a request made while a
\* test is active gives the "already running" signal, starts no worker, leaves
\* nothing behind that would start one later, and changes neither the workers
\* nor the signals they have queued; a worker is started only by the request
\* that set the flag.
C3_OneTestAtATime ==
    /\ [](Cardinality({w \in 1..MaxRuns : TestActive(w)}) <= 1)
    /\ [][(Request /\ speedtest_running) =>
             /\ speed_label' = "Speedtest already running"
             /\ mainpc' = "loop"
             /\ UNCHANGED <<speedtest_running, speedtest_thread, started, wpc, wres,
                            mainq>>]_vars
    /\ [][started' # started =>
             /\ mainpc = "pe_start"
             /\ speedtest_running
             /\ \A w \in 1..MaxRuns : ~TestActive(w)]_vars

\* A request was rejected while a worker was measuring.
C3_Witness ==
    /\ speed_label = "Speedtest already running"
    /\ \E w \in 1..MaxRuns : wpc[w] \in Measuring

\* C4: the flag is set when a worker is started; once set it is cleared again,
\* after a successful and after a failed measure_speed alike; and a tick that
\* finds it cleared probes.
C4_TestReturnsToIdle ==
    /\ [][started' # started => speedtest_running]_vars
    /\ speedtest_running ~> ~speedtest_running
    /\ \A w \in 1..MaxRuns :
          (wpc[w] = "emit" /\ wres[w].error) ~> (~speedtest_running /\ result_label.error)
    /\ [][(TickStep /\ ~speedtest_running) => probes' # <<>>]_vars

\* A failed test has been handled, the flag is cleared and a later tick has probed.
C4_Witness ==
    /\ result_label = ErrorResult
    /\ ~speedtest_running
    /\ \E w \in 1..MaxRuns : wpc[w] = "done"
    /\ probes # <<>>
    /\ ping_status_label # "Paused (speed test running)"

\* A throughput test is under way: the flag is set and the worker about to be
\* started, or a test is active.
TestInProgress == mainpc = "pe_start" \/ \E w \in 1..MaxRuns : TestActive(w)

\* C5: the loop never stops: a due timeout can always be handled; every tick on
\* which no throughput test is under way issues a probe, whatever probes, DNS
\* resolutions or throughput tests have failed before; and when the target
\* answers the tick's connection check, a sample is measured and recorded.
C5_LoopNeverStops ==
    /\ []((timer_due /\ mainpc # "init") => ENABLED Tick)
    /\ [][(TickStep /\ ~TestInProgress) =>
             /\ Len(probes') >= 2
             /\ probes'[1].method = "check_connection"]_vars
    /\ [][(TickStep /\ ~TestInProgress /\ probes'[2].answered) =>
             /\ Len(probes') = 3
             /\ probes'[3].method = "measure_ping"
             /\ total_pings' = total_pings + 1
             /\ ping_time_data' # <<>>
             /\ ping_time_data'[Len(ping_time_data')] = clock]_vars

\* A probe was lost, a DNS resolution raised and a throughput test failed, and
\* the tick after them has recorded a sample with a latency.
C5_Witness ==
    /\ lost_pings >= 1
    /\ \E w \in DnsThreads : dns_failed[w] /\ dpc[w] = "done"
    /\ result_label = ErrorResult
    /\ ~speedtest_running
    /\ Len(probes) = 3
    /\ ping_data # <<>>
    /\ ping_data[Len(ping_data)] > 0
    /\ ping_time_data[Len(ping_time_data)] = clock

\* C6: after an append at time now the buffer holds no sample older than
\* now - window_seconds, and neither does the list of lost markers; the newest
\* buffered timestamp is the time of the last append.
C6_WindowAfterAppend ==
    ping_time_data # <<>> =>
        LET now == ping_time_data[Len(ping_time_data)] IN
        /\ \A i \in 1..Len(ping_time_data) : ping_time_data[i] >= now - window_seconds
        /\ \A j \in 1..Len(lost_ping_times) : lost_ping_times[j] >= now - window_seconds

\* An append has evicted samples and lost markers that were older than the window.
C6_Witness ==
    /\ ping_time_data # <<>>
    /\ dropped
    /\ total_pings = MaxPings
    /\ lost_pings > Len(lost_ping_times)
    /\ ping_time_data[Len(ping_time_data)] >= window_seconds

\* The buffered samples that carry a latency.
PresentCount(data) == Cardinality({i \in 1..Len(data) : data[i] # 0})

Reported == ping_metrics_label.kind = "stats" /\ ping_time_data # <<>>

C8_Original ==
    outage_ticks = 10 =>
        /\ lost_pings = 10
        /\ total_pings = 10
        /\ ping_metrics_label.kind = "No data"

FailedProbes(ps) == Cardinality({i \in 1..Len(ps) : ~ps[i].answered})

\* C9 as stated: a tick with a single failed probe records one lost sample at the
\* tick's time, keeps the buffered samples of the window and does not reset the
\* status.
C9_Original ==
    [][(TickStep /\ FailedProbes(probes') = 1) =>
          /\ lost_pings' = lost_pings + 1
          /\ ping_time_data' # <<>>
          /\ ping_time_data'[Len(ping_time_data')] = clock
          /\ ping_data'[Len(ping_data')] = 0
          /\ \A i \in 1..Len(ping_time_data) :
                ping_time_data[i] >= clock - window_seconds =>
                   \E k \in 1..Len(ping_time_data') : ping_time_data'[k] = ping_time_data[i]
          /\ status_label' # "Status: Disconnected"]_vars

\* C10 as stated: a sample whose probe was answered, be it with a delay of zero,
\* is not counted as lost.
C10_Original ==
    [][(TickStep /\ Len(probes') = 3 /\ probes'[3].answered) =>
          /\ lost_pings' = lost_pings
          /\ lost_ping_times' = lost_ping_times]_vars

\* The buffered latencies that are not the value of a lost sample.
PresentLatencies(data) == SelectSeq(data, LAMBDA y : ~IsLostPing(y))

\* C11 as stated: min, max and average are computed over the buffered samples that
\* are not lost, and a buffer of lost samples only reports no data.  Here for a
\* tick whose measure_ping was not answered, on a buffer of samples that all
\* carry a latency.
C11_Original ==
    [][(/\ TickStep
        /\ Len(probes') = 3
        /\ ~probes'[3].answered
        /\ \A i \in 1..Len(ping_data) : ping_data[i] # 0) =>
          LET present == PresentLatencies(ping_data') IN
          IF present = <<>>
          THEN ping_metrics_label'.kind = "No data"
          ELSE /\ ping_metrics_label'.kind = "stats"
               /\ ping_metrics_label'.min = SeqMin(present)
               /\ ping_metrics_label'.max = SeqMax(present)
               /\ ping_metrics_label'.sum = SeqSum(present)
               /\ ping_metrics_label'.n = Len(present)]_vars

\* A step in which thread t leaves the try block of measure_speed without the
\* two speeds: get_best_server, download or upload has raised.
RunFails(t) ==
    /\ wpc[t] \in {"select", "download", "upload"}
    /\ wpc'[t] = "emit"
    /\ ~(wpc[t] = "upload" /\ last_result' = wres'[t] /\ last_speed_test' = wtime[t])

\* C12 as stated: a failure in server selection, download or upload is returned
\* as a result with the error marker, and this result differs from the one
\* measure_speed returns when speedtest is unavailable and no test ran.
C12_Original ==
    [][\A t \in Threads :
          RunFails(t) => (wres'[t].error /\ wres'[t] # UnavailableResult)]_vars

\* A step in which thread t passes the entry of measure_speed with speedtest
\* available.
CallDecides(t) == speedtest_available /\ wpc[t] = "run" /\ wpc'[t] # "run"

C14_Original ==
    /\ [][speedtest_available' # speedtest_available => mainpc = "pe_init"]_vars
    /\ [](mainpc = "pe_init" => ENABLED (RetryInit /\ speedtest_available'))

\* A step in which worker w emits a progress event of the given phase.
EmitsProgress(w, phase) ==
    mainq' = Append(mainq, [sig |-> "progress", w |-> w, val |-> phase])

\* C15: within one run no download event is emitted once an upload event has
\* been; an upload event is emitted only inside speedtest.upload, after
\* speedtest.download has returned its speed; and the upload phase is entered
\* only from the download phase, by the return of speedtest.download.
C15_DownloadThenUpload ==
    /\ [][\A w \in 1..MaxRuns :
             EmitsProgress(w, "download") => "upload" \notin wreported[w]]_vars
    /\ [][\A w \in 1..MaxRuns :
             EmitsProgress(w, "upload") =>
                (wpc[w] = "upload" /\ wres[w].download \in DownloadSpeeds)]_vars
    /\ [][\A w \in 1..MaxRuns :
             (wpc'[w] = "upload" /\ wpc[w] # "upload") =>
                (wpc[w] = "download" /\ wres'[w].download \in DownloadSpeeds)]_vars

\* A run has emitted download events and then an upload event, which waits in
\* the queue.
C15_Witness ==
    \E w \in 1..MaxRuns :
       /\ wreported[w] = {"download", "upload"}
       /\ mainq # <<>>
       /\ mainq[Len(mainq)] = [sig |-> "progress", w |-> w, val |-> "upload"]

\* The reports of the DNS leak tests: the queued ones, each with its run, and
\* the one handle_dns_test_result stored last.
QueuedReports == {i \in 1..Len(mainq) : mainq[i].sig = "dns_result"}

Servers == AnswersA \cup AnswersNS \cup UNION ConfiguredChoices

ReportIsSound(r) ==
    /\ \A x \in Servers :
          x \in r.unexpected_servers <=>
             (x \in r.detected_servers /\ x \notin r.configured_dns)
    /\ r.unexpected_servers \subseteq Servers
    /\ r.is_leaking <=> r.unexpected_servers # {}
    /\ r.detected_servers \subseteq r.configured_dns => ~r.is_leaking
    /\ (r.configured_dns = {"1.1.1.1"} /\ r.detected_servers = {"1.1.1.1", "8.8.8.8"}) =>
          (r.is_leaking /\ r.unexpected_servers = {"8.8.8.8"})

\* C16: the report of every run carries the run's configured and detected
\* servers, its unexpected_servers are the detected servers that are not
\* configured, is_leaking says whether there is one, and it is false where the
\* configured servers include the detected ones.
C16_UnexpectedIsDifference ==
    /\ \A i \in QueuedReports :
          /\ mainq[i].val.configured_dns = dns_configured[mainq[i].w]
          /\ mainq[i].val.detected_servers = dns_detected[mainq[i].w]
          /\ ReportIsSound(mainq[i].val)
    /\ ReportIsSound(dns_test_results)

\* The report of a run with configured {1.1.1.1} and detected {1.1.1.1, 8.8.8.8}
\* has been stored.
C16_Witness ==
    /\ dns_test_results.configured_dns = {"1.1.1.1"}
    /\ dns_test_results.detected_servers = {"1.1.1.1", "8.8.8.8"}
    /\ dns_test_results.is_leaking
    /\ \E w \in DnsThreads : dpc[w] \in {"finish", "done"}

\* A step in which a resolution of DNS worker w completes.
DomainCompletes(w) == dpc[w] = "resolve" /\ dns_pending'[w] # dns_pending[w]

\* The progress values of worker w that wait in the queue.
QueuedProgress(w) ==
    {mainq[i].val : i \in {j \in 1..Len(mainq) :
                              mainq[j].sig = "dns_progress" /\ mainq[j].w = w}}

\* C17: whatever the order in which the resolutions complete, a completion takes
\* one domain that had not completed before, counts it and emits one progress
\* event with the value completed / 5 * 100, which is greater than the values
\* emitted before it; the run ends with all 5 domains completed, and the
\* progress emitted at the last completion is 100.
C17_ProgressPerDomain ==
    /\ [][\A w \in DnsThreads :
             DomainCompletes(w) =>
                /\ \E d \in dns_pending[w] : dns_pending'[w] = dns_pending[w] \ {d}
                /\ dns_completed'[w] = dns_completed[w] + 1
                /\ mainq' = Append(mainq, [sig |-> "dns_progress", w |-> w,
                                           val |-> (dns_completed'[w] * 100) \div 5])
                /\ \A v \in QueuedProgress(w) : v < mainq'[Len(mainq')].val
                /\ (dns_completed[w] * 100) \div 5 < mainq'[Len(mainq')].val
                /\ dns_pending'[w] = {} => mainq'[Len(mainq')].val = 100]_vars
    /\ [](\A w \in DnsThreads :
             /\ dpc[w] = "resolve" =>
                   dns_completed[w] + Cardinality(dns_pending[w]) = NumDomains
             /\ dpc[w] \in {"finish", "done"} =>
                   (dns_pending[w] = {} /\ dns_completed[w] = NumDomains))
    /\ [][\A w \in DnsThreads :
             (dpc[w] = "resolve" /\ dpc'[w] # "resolve") => dns_pending[w] = {}]_vars

\* Three domains have completed out of submission order and the third progress
\* value waits in the queue.
C17_Witness ==
    \E w \in DnsThreads :
       /\ dpc[w] = "resolve"
       /\ dns_pending[w] = {1, 3}
       /\ dns_completed[w] = 3
       /\ QueuedProgress(w) = {60}

\* C18 as stated: a run in which resolutions have raised still returns a report,
\* and its detected_servers are the servers of the resolutions that have not
\* raised: nothing obtained for a failed domain is among them.
C18_Original ==
    \A i \in QueuedReports :
       dns_failed[mainq[i].w] => mainq[i].val.detected_servers = dns_kept[mainq[i].w]

\* A step of a DNS leak test: its request, a step of its worker thread, or the
\* delivery of one of its signals to its slot.
DnsSignals == {"dns_progress", "dns_result", "dns_finished"}

DnsTestStep ==
    \/ dns_started' # dns_started
    \/ <<dpc, dns_pending, dns_completed, dns_detected>>' #
          <<dpc, dns_pending, dns_completed, dns_detected>>
    \/ mainq # <<>> /\ Head(mainq).sig \in DnsSignals /\ mainq' = Tail(mainq)

DnsTestUnderWay == dns_test_running /\ \E w \in DnsThreads : dpc[w] \in {"run", "resolve"}

\* C19: while a DNS leak test runs, a tick that finds no throughput test running
\* probes, and records a sample when the target answers; a run request is
\* accepted as without the DNS test, setting the flag; and no step of a DNS test
\* (request, worker step, progress, result, cleanup) changes speedtest_running,
\* the sample buffer, the lost markers or the counters.
C19_DnsIndependent ==
    /\ [][(TickStep /\ DnsTestUnderWay /\ ~speedtest_running) =>
             /\ Len(probes') >= 2
             /\ probes'[2].answered =>
                   /\ total_pings' = total_pings + 1
                   /\ ping_time_data' # <<>>
                   /\ ping_time_data'[Len(ping_time_data')] = clock]_vars
    /\ [][(RequestFirst /\ DnsTestUnderWay /\ speedtest_available /\ ~speedtest_running) =>
             (speedtest_running' /\ mainpc' = "pe_start")]_vars
    /\ []((/\ DnsTestUnderWay
           /\ mainpc = "loop"
           /\ speedtest_available
           /\ ~speedtest_running
           /\ started < MaxRunsAll) => ENABLED (RequestFirst /\ speedtest_running'))
    /\ [][DnsTestStep => UNCHANGED <<speedtest_running, SampleVars>>]_vars

\* While the DNS worker resolves, a tick has recorded a sample and a run request
\* has been accepted and its worker started.
C19_Witness ==
    /\ \E w \in DnsThreads : dpc[w] = "resolve" /\ dns_completed[w] >= 1
    /\ dns_test_running
    /\ dns_at_tick
    /\ Len(probes) = 3
    /\ speedtest_running
    /\ \E w \in 1..MaxRuns : wpc[w] \in Measuring
    /\ ping_time_data # <<>>
    /\ ping_time_data[Len(ping_time_data)] = clock
    /\ clock > 0

\* s is what is left of t after some of its head elements were removed.
IsSuffix(s, t) == Len(s) <= Len(t) /\ s = SubSeq(t, Len(t) - Len(s) + 1, Len(t))

\* C20: the buffered timestamps are in non-decreasing order, each with its
\* latency, and a tick leaves the buffer a suffix of what it was, with at most
\* one sample appended to it, whose timestamp is the time of the tick.
C20_OrderedOnePerTick ==
    /\ [](/\ Len(ping_data) = Len(ping_time_data)
          /\ \A i \in 1..Len(ping_time_data) : \A j \in i..Len(ping_time_data) :
                ping_time_data[i] <= ping_time_data[j])
    /\ [][TickStep =>
             \/ IsSuffix(ping_time_data', ping_time_data)
             \/ /\ ping_time_data' # <<>>
                /\ ping_time_data'[Len(ping_time_data')] = clock
                /\ IsSuffix(SubSeq(ping_time_data', 1, Len(ping_time_data') - 1),
                            ping_time_data)]_vars
    /\ [][ping_time_data' # ping_time_data => TickStep]_vars

\* Three ticks have each appended a sample and the buffer holds the later two,
\* the older before the newer.
C20_Witness ==
    /\ total_pings = MaxPings
    /\ Len(ping_time_data) = 2
    /\ ping_time_data[1] < ping_time_data[2]
    /\ dropped

\* ----------------------------------------------------------------------- C21

\* A DNS worker is running from its start until check_dns_leaks has returned
\* and the result is emitted.
DnsWorkerRunning(w) == dpc[w] \in {"run", "resolve"}

OneDnsWorker == Cardinality({w \in DnsThreads : DnsWorkerRunning(w)}) <= 1

FlagCoversWorker == ~dns_test_running => \A w \in DnsThreads : ~DnsWorkerRunning(w)

\* C21 as stated: at most one DNS worker is running, and dns_test_running is
\* false only when none is.
C21_Original == OneDnsWorker /\ FlagCoversWorker

\* ----------------------------------------------------------------------- C22

\* A step in which worker w emits a result event.
EmitsResult(w) ==
    /\ Len(mainq') = Len(mainq) + 1
    /\ SubSeq(mainq', 1, Len(mainq)) = mainq
    /\ mainq'[Len(mainq')].sig = "result"
    /\ mainq'[Len(mainq')].w = w

\* C22: a worker emits a result event only on the return of measure_speed, and
\* it is what measure_speed returned; it leaves that point only by emitting it,
\* whether the test failed or not; past it, it emits neither a result nor a
\* progress event; progress events are emitted only inside speedtest.download and
\* speedtest.upload, which lie before the return; and every started worker comes
\* to emit its result.
C22_OneResultAfterProgress ==
    /\ [][\A w \in 1..MaxRuns :
             EmitsResult(w) =>
                /\ wpc[w] = "emit"
                /\ wpc'[w] = "finish"
                /\ mainq'[Len(mainq')].val = wres[w]]_vars
    /\ [][\A w \in 1..MaxRuns :
             (wpc[w] = "emit" /\ wpc'[w] # "emit") => EmitsResult(w)]_vars
    /\ [][\A w \in 1..MaxRuns :
             wpc[w] \in {"finish", "done"} =>
                /\ wpc'[w] \in {"finish", "done"}
                /\ ~EmitsResult(w)
                /\ \A phase \in {"download", "upload"} : ~EmitsProgress(w, phase)]_vars
    /\ [][\A w \in 1..MaxRuns :
             \A phase \in {"download", "upload"} :
                EmitsProgress(w, phase) => wpc[w] \in {"download", "upload"}]_vars
    /\ \A w \in 1..MaxRuns : (wpc[w] = "run") ~> (wpc[w] \in {"finish", "done"})

\* A run has reported download progress, its upload has raised, and its result
\* has been emitted behind the progress event.
C22_Witness ==
    /\ wpc[1] = "finish"
    /\ wres[1].error
    /\ mainq = <<[sig |-> "progress", w |-> 1, val |-> "download"],
                 [sig |-> "result", w |-> 1, val |-> ErrorResult]>>

\* ----------------------------------------------------------------------- C23

\* A step in which thread t returns from the try block of measure_speed with the
\* two speeds.
RunSucceeds(t) == wpc[t] = "upload" /\ wpc'[t] = "emit" /\ ~wres'[t].error

\* A step in which the direct caller, whose last call returned an error, passes
\* the entry of measure_speed with force=false.
UnforcedAfterFailure == CallDecides(0) /\ ~wforce[0] /\ wres[0].error

\* last_speed_test changes only in a step in which a test completes both
\* phases, and becomes the time that call was made.
OnlySuccessDatesTest ==
    [][last_speed_test' # last_speed_test =>
          \E t \in Threads : RunSucceeds(t) /\ last_speed_test' = wtime[t]]_vars

\* C23 as stated: last_speed_test changes only when a test completes both
\* phases, and the next call with force=false after a failure runs a new test.
C23_Original ==
    /\ OnlySuccessDatesTest
    /\ [][UnforcedAfterFailure => wpc'[0] = "select"]_vars

\* C23, amended: last_speed_test changes only when a test completes both phases;
\* a failed call leaves the cool-down as it found it, so that the next call with
\* force=false runs a new test exactly when no test has completed within
\* speed_test_interval before it; and when the failed call was itself made with
\* force=false none has.
C23_FailureKeepsCoolDown ==
    /\ OnlySuccessDatesTest
    /\ [][\A t \in Threads : RunFails(t) => UNCHANGED last_speed_test]_vars
    /\ [][UnforcedAfterFailure =>
             (wpc'[0] = "select" <=> clock - last_speed_test >= speed_test_interval)]_vars
    /\ [](speedtest_available /\ wpc[0] = "emit" /\ wres[0].error /\ ~wforce[0] =>
             clock - last_speed_test >= speed_test_interval)

\* After a test that completed and a later failed one, a call with force=false
\* has run a new test once the completed one was speed_test_interval old.
C23_Witness ==
    /\ calls = MaxCalls
    /\ wpc[0] = "select"
    /\ ~wforce[0]
    /\ wres[0].error
    /\ last_result.download > 0
    /\ wtime[0] - last_speed_test >= speed_test_interval

\* ----------------------------------------------------------------------- C24

\* C24 as stated: every timestamp of lost_ping_times is the timestamp of a
\* sample held in the buffer.
C24_Original ==
    \A j \in 1..Len(lost_ping_times) :
       \E i \in 1..Len(ping_time_data) : ping_time_data[i] = lost_ping_times[j]

\* ----------------------------------------------------------------------- C25

\* A step in which run_speed_test_now returns from a re-initialization that has
\* left speedtest unavailable.
RetryFails == mainpc = "pe_init" /\ mainpc' # "pe_init" /\ ~speedtest_available'

\* C25: a request made while speedtest is unavailable reaches the
\* re-initialization, at startup as later; when that fails the request returns
\* with speedtest_running false and no worker created or started; while
\* speedtest is unavailable no test is ever running and no worker exists; and
\* every timeout, during the request and after it, can be handled and probes the
\* connection.
C25_FailedRetryStaysIdle ==
    /\ [][(~speedtest_available /\ mainpc \in {"init", "loop"} /\ mainpc' # mainpc) =>
             mainpc' \in {"loop", "pe_init"}]_vars
    /\ [][RetryFails =>
             /\ mainpc' = "loop"
             /\ ~speedtest_running'
             /\ speed_label' = "Speed: Speedtest unavailable"
             /\ UNCHANGED <<started, speedtest_thread, wpc, mainq>>]_vars
    /\ [](~speedtest_available =>
             /\ ~speedtest_running
             /\ speedtest_thread = 0
             /\ started = 0
             /\ mainpc # "pe_start")
    /\ []((~speedtest_available /\ timer_due /\ mainpc # "init") => ENABLED Tick)
    /\ [][(TickStep /\ ~speedtest_available) =>
             /\ Len(probes') >= 2
             /\ probes'[1].method = "check_connection"]_vars

\* A tick has found the connection down and reset the speed label; a request
\* made after it has failed to re-initialize speedtest and returned, the
\* orchestrator is idle and the next timeout is due.
C25_Witness ==
    /\ ~speedtest_available
    /\ outage_ticks = 1
    /\ speed_label = "Speed: Speedtest unavailable"
    /\ mainpc = "loop"
    /\ ~speedtest_running
    /\ started = 0
    /\ timer_due
    /\ ENABLED Tick

====
